---- MODULE Spec2Model ----
(***************************************************************************)
(* Model of certain::stream (src/src/lib.rs) and of the endpoint calls it  *)
(* drives (src/src/endpoint.rs).                                           *)
(*                                                                         *)
(* A log entry is represented by its log index.  A conforming log server   *)
(* answers get-entries(start, end) with the entries start, start+1, ...    *)
(* and never with more than end - start of them.                           *)
(***************************************************************************)
EXTENDS Integers, Sequences, FiniteSets, TLC

VARIABLES
    timeout,     \* config.timeout, then the effective timeout (lib.rs 128)
    workers,     \* config.workers, then the effective workers (lib.rs 125)
    index,       \* config.index
    batch,       \* config.batch, then the effective batch (lib.rs 126)
    pc,          \* where the body of stream is
    sizeLoop,    \* the tree size retry loop (lib.rs 132-162)
    size,        \* the tree size the loop broke with, None before
    position,    \* lib.rs 164, None before
    nextStart,   \* the next element of (position..).step_by(batch)
    started,     \* number of fetch tasks spawned so far
    queue,       \* the spawned tasks buffered(workers) has not yet yielded
    current,     \* the rest of the batch the for loop is iterating
    delivered,   \* log indices the handler has been called with, in order
    lastReturn,  \* what the latest call of the handler returned
    result,      \* what stream returned, if it has
    malformed,   \* the log index whose leaf does not decode, None if none
    budget,      \* how many more transient answers the server gives, None
                 \* when it is not limited
    call,        \* a call of one of the functions of the codec
    ret          \* what that call returned

\* The log, the server and the function called on its own: no step of
\* stream changes them, but that an answer may use up the budget.
envVars == <<malformed, call, ret>>

vars == <<timeout, workers, index, batch, pc, sizeLoop, size, position,
          nextStart, started, queue, current, delivered, lastReturn, result,
          malformed, budget, call, ret>>

----
\* Bounds of the model.

None == 0 - 1

MaxWorkers == 1
MaxBatch == 2
MaxSize == 1
MaxStarted == 3

\* num_cpus::get() of the machine, lib.rs 125
NumCpus == 2
\* lib.rs 126
DefaultBatch == 1000
\* lib.rs 129, in seconds
DefaultTimeout == 1
\* a configured timeout, in seconds
SomeTimeout == 3
\* a Retry-After header of "2"
RetryAfterSecs == 2
\* the certificates of the longest chain of an entry
MaxChain == 2
\* the names of the longest subjectAltName extension
MaxNames == 2
\* the calls of the handler a run with the default batch is followed for
MaxCalls == 3
\* the answers other than data and errors a server gives that gives
\* finitely many
MaxRetries == 3

\* chrono: the seconds of a day
SecondsPerDay == 86400

Max(a, b) == IF a >= b THEN a ELSE b
Min(a, b) == IF a <= b THEN a ELSE b

----
\* Configuration, lib.rs 112-130.

EffectiveWorkers(w) == Max(IF w = None THEN NumCpus ELSE w, 1)

EffectiveBatchAsSet(b) == IF b = None THEN DefaultBatch ELSE b

EffectiveBatch(b) == Max(IF b = None THEN DefaultBatch ELSE b, 1)

EffectiveTimeout(t) == IF t = None THEN DefaultTimeout ELSE t

\* lib.rs 164
PositionUnclamped(i, sz) == IF i = None THEN sz ELSE i
Position(i, sz) == Min(IF i = None THEN sz ELSE i, sz)

----
\* Endpoint client, endpoint.rs 253-359.

Data(v) == [kind |-> "Data", val |-> v, code |-> 200]
Limited(d) == [kind |-> "Limited", val |-> d, code |-> 429]
Unhandled(c) == [kind |-> "Unhandled", val |-> None, code |-> c]
ErrResponse(t, c) == [kind |-> "Err", val |-> t, code |-> c]

\* The Retry-After headers a response may carry.
Headers == { [form |-> "absent", secs |-> None],
             [form |-> "seconds", secs |-> RetryAfterSecs],
             [form |-> "garbage", secs |-> None] }

\* A Retry-After header that is an RFC 2822 date: secs is the time it
\* names, in seconds since the epoch, UTC.
DateHeader(t) == [form |-> "date", secs |-> t]

\* chrono: the day a time falls on (date_naive).
Day(t) == t \div SecondsPerDay

\* Utc::now() when the header is read.
UtcNow == call.now

\* `as u64` of an i64 number of seconds: x when it is not negative and
\* 2^64 + x when it is.  The value is secs + carry * 2^64.
AsU64(x) == [secs |-> x, carry |-> IF x < 0 THEN 1 ELSE 0]

\* endpoint.rs 261-276: the header as a number of seconds, or else as a
\* date, of which the whole days from today are taken.
get_rate_timeout(h) ==
    IF h.form = "seconds" THEN h.secs
    ELSE IF h.form = "date"
        THEN AsU64(SecondsPerDay * (Day(h.secs) - Day(UtcNow)))
    ELSE None

get_log_size_client400(code, h, treeSize) ==
    IF code = 200 THEN Data(treeSize)
    ELSE IF code = 429 THEN Limited(get_rate_timeout(h))
    ELSE IF code >= 400 /\ code <= 499 THEN ErrResponse("Client", code)
    ELSE IF code >= 500 /\ code <= 599 THEN ErrResponse("Server", code)
    ELSE Unhandled(code)

get_log_size(code, h, treeSize) ==
    IF code = 200 THEN Data(treeSize)
    ELSE IF code = 429 THEN Limited(get_rate_timeout(h))
    ELSE IF code >= 401 /\ code <= 499 THEN ErrResponse("Client", code)
    ELSE IF code >= 500 /\ code <= 599 THEN ErrResponse("Server", code)
    ELSE Unhandled(code)

----
\* Certificates, certificate.rs.

\* chrono: NaiveDateTime::from_timestamp(secs, 0) is the day and the second
\* of the day, and timestamp() is back from them.
from_timestamp(secs) ==
    [day |-> secs \div SecondsPerDay, second |-> secs % SecondsPerDay]
Timestamp(time) == time.day * SecondsPerDay + time.second

from_timestamps_as_given(begin, end) ==
    [begin |-> from_timestamp(begin), end |-> from_timestamp(end)]

\* certificate.rs 44-51
from_timestamps(begin, end) ==
    [begin |-> from_timestamp(Min(begin, end)),
     end |-> from_timestamp(Max(end, begin))]

\* A GeneralName of the extension: its kind, and its text or, of an
\* IPAddress, its octets.
GeneralName(kind, text, octets) ==
    [kind |-> kind, text |-> text, octets |-> octets]

\* IpAddr::to_string of four octets, and of the sixteen octets of the
\* unspecified address and of the loopback address.
Ipv4String(o) ==
    ToString(o[1]) \o "." \o ToString(o[2]) \o "." \o ToString(o[3])
        \o "." \o ToString(o[4])
Ipv6String(o) == IF o[16] = 0 THEN "::" ELSE "::" \o ToString(o[16])

NoAlternate == [some |-> FALSE, variant |-> "none", text |-> ""]
Alternate(variant, text) == [some |-> TRUE, variant |-> variant, text |-> text]

\* certificate.rs 227-254
ToAlternate(name) ==
    CASE name.kind = "DirectoryName" -> Alternate("Directory", name.text)
      [] name.kind = "RFC822Name" -> Alternate("Email", name.text)
      [] name.kind = "IPAddress" ->
            IF Len(name.octets) = 4
                THEN Alternate("Address", Ipv4String(name.octets))
            ELSE IF Len(name.octets) = 16
                THEN Alternate("Address", Ipv6String(name.octets))
            ELSE NoAlternate
      [] name.kind = "DNSName" -> Alternate("Hostname", name.text)
      [] name.kind = "URI" -> Alternate("Uri", name.text)
      [] OTHER -> NoAlternate

subject_alternate_unfiltered(subject_name, general_names) ==
    LET mapped == [j \in 1..Len(general_names) |->
                       ToAlternate(general_names[j])]
        Kept(alternate) == alternate.some
    IN  SelectSeq(mapped, Kept)

\* certificate.rs 226-268: the names that are of a kind the crate has,
\* without those whose text is the subject name.
subject_alternate(subject_name, general_names) ==
    LET mapped == [j \in 1..Len(general_names) |->
                       ToAlternate(general_names[j])]
        Kept(alternate) ==
            /\ alternate.some
            /\ ~(subject_name.some /\ alternate.text = subject_name.text)
    IN  SelectSeq(mapped, Kept)

----
\* Decoding of a log entry, endpoint.rs 97-251.

\* error.rs 10-19; `what` is the text of a Parse error.
LogError(type, val, what) ==
    [ok |-> FALSE, type |-> type, val |-> val, what |-> what]
Parse(what) == LogError("Parse", None, what)
Entry(timestamp, certificate, chain) ==
    [ok |-> TRUE, timestamp |-> timestamp, certificate |-> certificate,
     chain |-> chain]

\* A cursor over bytes at position pos: whether n more bytes are there,
\* the big-endian number of the next n, and what read() puts into a zeroed
\* buffer of n bytes (it is no error that fewer are left).
CanRead(data, pos, n) == pos + n <= Len(data)

RECURSIVE BigEndian(_)
BigEndian(bytes) ==
    IF bytes = <<>> THEN 0
    ELSE 256 * BigEndian(SubSeq(bytes, 1, Len(bytes) - 1)) + bytes[Len(bytes)]

ReadUInt(data, pos, n) == BigEndian(SubSeq(data, pos + 1, pos + n))

ReadBuffer(data, pos, n) ==
    [j \in 1..n |-> IF pos + j <= Len(data) THEN data[pos + j] ELSE 0]

AfterRead(data, pos, n) == Max(pos, Min(pos + n, Len(data)))

\* A u64 is kept as its eight bytes, the first the most significant, so
\* that no value of it is out of reach. read_u64 is the next eight bytes;
\* Quotient is bytes / d, with rem < d carried in from the left, for d of
\* at most 2^16; AtMost is bytes <= bound for two numbers of one length.
ReadU64(data, pos) == SubSeq(data, pos + 1, pos + 8)

RECURSIVE Quotient(_, _, _)
Quotient(bytes, d, rem) ==
    IF bytes = <<>> THEN <<>>
    ELSE LET n == rem * 256 + Head(bytes)
         IN  <<n \div d>> \o Quotient(Tail(bytes), d, n % d)

RECURSIVE AtMost(_, _)
AtMost(bytes, bound) ==
    \/ bytes = <<>>
    \/ Head(bytes) < Head(bound)
    \/ Head(bytes) = Head(bound) /\ AtMost(Tail(bytes), Tail(bound))

\* chrono: the last second NaiveDateTime holds, 262143-12-31T23:59:59,
\* is 8210298412799 = 0x0000_0777_9BEB_9EFF seconds after the epoch, and
\* from_timestamp_opt is None past it; the default NaiveDateTime is the
\* epoch. raw / 1000 is below 2^63, so `as i64` leaves it as it is.
NaiveDateTimeMax == <<0, 0, 7, 119, 155, 235, 158, 255>>
NaiveDateTimeDefault == <<0, 0, 0, 0, 0, 0, 0, 0>>

from_timestamp_opt(secs) ==
    IF AtMost(secs, NaiveDateTimeMax) THEN [some |-> TRUE, val |-> secs]
    ELSE [some |-> FALSE, val |-> <<>>]

unwrap_or_default(option) ==
    IF option.some THEN option.val ELSE NaiveDateTimeDefault

\* endpoint.rs 106-113: the timestamp of the entry, in seconds.
LeafTimestamp(data) ==
    unwrap_or_default(from_timestamp_opt(Quotient(ReadU64(data, 2), 1000, 0)))

\* A certificate in DER is, in this model, the SEQUENCE tag and one byte
\* that tells the certificates apart; the parser takes it from the head of
\* the buffer and leaves what follows.
DerTag == 48
Der(id) == <<DerTag, id>>
CertificateParse(buffer) ==
    IF Len(buffer) >= 2 /\ buffer[1] = DerTag /\ buffer[2] # 0
        THEN [some |-> TRUE, encoded |-> SubSeq(buffer, 1, 2)]
    ELSE [some |-> FALSE, encoded |-> <<>>]

\* endpoint.rs 146-157 and 194-205: the certificates of extra_data from
\* position pos up to chainEnd.
RECURSIVE ReadChain(_, _, _, _)
ReadChain(extra, pos, chainEnd, chain) ==
    IF pos < chainEnd THEN
        IF ~CanRead(extra, pos, 3)
            THEN Parse("reading certificate chain entry length!")
        ELSE LET length == ReadUInt(extra, pos, 3)
                 certificate ==
                     CertificateParse(ReadBuffer(extra, pos + 3, length))
             IN  IF ~certificate.some
                     THEN Parse("parsing certificate chain entry!")
                 ELSE ReadChain(extra, AfterRead(extra, pos + 3, length),
                                chainEnd, Append(chain, certificate.encoded))
    ELSE [ok |-> TRUE, chain |-> chain]

ChainFromLength(extra, pos) ==
    IF ~CanRead(extra, pos, 3) THEN Parse("reading certificate chain length!")
    ELSE ReadChain(extra, pos + 3, ReadUInt(extra, pos, 3), <<>>)

\* endpoint.rs 143-144 and 191-192: the end of the chain is the position
\* before its length is read, plus that length.
ChainFrom(extra, pos) ==
    IF ~CanRead(extra, pos, 3) THEN Parse("reading certificate chain length!")
    ELSE ReadChain(extra, pos + 3, pos + ReadUInt(extra, pos, 3), <<>>)

\* endpoint.rs 127-162 (skip = 0) and 168-210 (skip = 32, and extra_data
\* begins with the certificate, which is passed over).
ReadEntry(data, extra, timestamp, skip) ==
    IF ~CanRead(data, 12 + skip, 3) THEN Parse("reading certificate length!")
    ELSE
        LET length == ReadUInt(data, 12 + skip, 3)
            certificate ==
                CertificateParse(ReadBuffer(data, 15 + skip, length))
            chain ==
                IF skip = 0 THEN ChainFrom(extra, 0)
                ELSE IF ~CanRead(extra, 0, 3)
                    THEN Parse("reading certificate length!")
                ELSE ChainFrom(extra, 3 + ReadUInt(extra, 0, 3))
        IN  IF ~certificate.some THEN Parse("parsing certificate!")
            ELSE IF ~chain.ok THEN chain
            ELSE Entry(timestamp, certificate.encoded, chain.chain)

parse_log_entry_any_version(data, extra_data) ==
    IF ~CanRead(data, 0, 1) THEN Parse("reading leaf version!")
    ELSE IF ~CanRead(data, 1, 1) THEN Parse("reading leaf variant!")
    ELSE IF ~CanRead(data, 2, 8) THEN Parse("reading leaf timestamp!")
    ELSE IF ~CanRead(data, 10, 2) THEN Parse("reading leaf entry variant!")
    ELSE
        LET leaf_variant == data[2]
            timestamp == LeafTimestamp(data)
            leaf_entry_variant == ReadUInt(data, 10, 2)
        IN  IF leaf_variant # 0
                THEN LogError("UnsupportedLeaf", leaf_variant, "")
            ELSE IF leaf_entry_variant = 0
                THEN ReadEntry(data, extra_data, timestamp, 0)
            ELSE IF leaf_entry_variant = 1
                THEN ReadEntry(data, extra_data, timestamp, 32)
            ELSE LogError("UnsupportedEntry", leaf_entry_variant, "")

\* endpoint.rs 97-221: version, leaf type, timestamp and entry type are
\* all read before any of them is looked at.
parse_log_entry(data, extra_data) ==
    IF ~CanRead(data, 0, 1) THEN Parse("reading leaf version!")
    ELSE IF ~CanRead(data, 1, 1) THEN Parse("reading leaf variant!")
    ELSE IF ~CanRead(data, 2, 8) THEN Parse("reading leaf timestamp!")
    ELSE IF ~CanRead(data, 10, 2) THEN Parse("reading leaf entry variant!")
    ELSE
        LET leaf_version == data[1]
            leaf_variant == data[2]
            timestamp == LeafTimestamp(data)
            leaf_entry_variant == ReadUInt(data, 10, 2)
        IN  IF leaf_version # 0
                THEN LogError("UnsupportedVersion", leaf_version, "")
            ELSE IF leaf_variant # 0
                THEN LogError("UnsupportedLeaf", leaf_variant, "")
            ELSE IF leaf_entry_variant = 0
                THEN ReadEntry(data, extra_data, timestamp, 0)
            ELSE IF leaf_entry_variant = 1
                THEN ReadEntry(data, extra_data, timestamp, 32)
            ELSE LogError("UnsupportedEntry", leaf_entry_variant, "")

\* What the log serves, RFC 6962 section 3.4: numbers are big-endian, a
\* MerkleTreeLeaf is version, leaf type, timestamp in milliseconds, entry
\* type and the entry; extra_data holds the chain.
U16(n) == <<n \div 256, n % 256>>
U24(n) == <<n \div 65536, (n \div 256) % 256, n % 256>>
U64(n) == <<0, 0, 0, 0, n \div 16777216, (n \div 65536) % 256,
            (n \div 256) % 256, n % 256>>

MerkleTreeLeaf(version, variant, millis, entryVariant, body) ==
    <<version, variant>> \o U64(millis) \o U16(entryVariant) \o body

Opaque24(bytes) == U24(Len(bytes)) \o bytes

RECURSIVE Concat(_)
Concat(seqs) == IF seqs = <<>> THEN <<>> ELSE Head(seqs) \o Concat(Tail(seqs))

ChainBytes(certs) ==
    Opaque24(Concat([j \in 1..Len(certs) |-> Opaque24(certs[j])]))

IssuerKeyHash == [j \in 1..32 |-> 7]
X509Body(cert) == Opaque24(cert)
PrecertBody(cert) == IssuerKeyHash \o Opaque24(cert)
PrecertExtra(cert, certs) == Opaque24(cert) \o ChainBytes(certs)

\* The leaf and the extra data the log holds at an index: an X.509 entry
\* without chain, of version 0 but at the index `malformed`, where it is
\* of version 1.
Leaf(i, version) ==
    MerkleTreeLeaf(version, 0, 1000 * i, 0, X509Body(Der((i % 255) + 1)))
LeafOf(i) == Leaf(i, IF i = malformed THEN 1 ELSE 0)
ExtraOf(i) == ChainBytes(<<>>)

\* Whether the leaf at an index decodes, for every index a run comes to
\* and both versions; it is the same each time the leaf is served.
LogIndices == 0..(MaxSize + MaxStarted * Max(MaxBatch, DefaultBatch))
LeafDecodes ==
    [i \in LogIndices |->
        [version \in {0, 1} |->
            parse_log_entry(Leaf(i, version), ExtraOf(i)).ok]]

Decodes(i) == LeafDecodes[i][IF i = malformed THEN 1 ELSE 0]

\* The entries a conforming server returns when it returns k of them.
ServerEntries(start, k) == [j \in 1..k |-> start + j - 1]

read_log_entries_skipping(entries) ==
    Data(SelectSeq(entries, Decodes))

\* endpoint.rs 230-251: the entries are decoded in order and the first
\* that fails is the result.  An entry stands for its decoded form.
read_log_entries(entries) ==
    LET bad == {j \in 1..Len(entries) : ~Decodes(entries[j])}
        first == CHOOSE j \in bad : \A l \in bad : j <= l
    IN  IF bad = {} THEN Data(entries)
        ELSE ErrResponse("Log", parse_log_entry(LeafOf(entries[first]),
                                                ExtraOf(entries[first])).val)

get_log_entries_retrying(code, h, start, k) ==
    IF code = 200 THEN read_log_entries(ServerEntries(start, k))
    ELSE IF code = 429 THEN Limited(get_rate_timeout(h))
    ELSE IF code >= 401 /\ code <= 499 THEN ErrResponse("Client", code)
    ELSE Unhandled(code)

get_log_entries(code, h, start, k) ==
    IF code = 200 THEN read_log_entries(ServerEntries(start, k))
    ELSE IF code = 429 THEN Limited(get_rate_timeout(h))
    ELSE IF code >= 401 /\ code <= 499 THEN ErrResponse("Client", code)
    ELSE IF code >= 500 /\ code <= 599 THEN ErrResponse("Server", code)
    ELSE Unhandled(code)

\* The HTTP statuses the server answers with.
Codes == {200, 429, 400, 404, 500, 304}

\* What a response of the server carries that the client reads: the
\* Retry-After header of a 429 and the payload of a 200.
NoHeader == [form |-> "absent", secs |-> None]
HeadersOf(code) == IF code = 429 THEN Headers ELSE {NoHeader}
PayloadsOf(code, most) == IF code = 200 THEN 0..most ELSE {0}

----
\* stream has been called with a configuration.

NoResult == [kind |-> "none", type |-> "none", code |-> None]
Ok == [kind |-> "Ok", type |-> "none", code |-> None]
ResponseError(t, c) == [kind |-> "Err", type |-> t, code |-> c]

\* What a retry loop is doing: awaiting the response to its request, or
\* sleeping for dur seconds.  `last` is the response that made it sleep or
\* issue the request at once; it is NoTag for the first request and for the
\* request that follows a sleep.
NoTag == [kind |-> "none", val |-> None, code |-> None]
Tag(resp) ==
    IF resp.kind = "Data" THEN
        [kind |-> IF resp.val = <<>> THEN "Empty" ELSE "Data",
         val |-> None, code |-> 200]
    ELSE [kind |-> resp.kind, val |-> resp.val, code |-> resp.code]

Requesting == [pc |-> "request", dur |-> None, last |-> NoTag]
Retrying(resp) == [pc |-> "request", dur |-> None, last |-> Tag(resp)]
Sleeping(d, resp) == [pc |-> "sleep", dur |-> d, last |-> Tag(resp)]

\* No function of the codec is called on its own.
NoCall == [fn |-> "none"]
NoReturn == [done |-> FALSE]

\* The configurations: a configured timeout, workers and index unset or
\* set, a batch set; workers(0) and batch(0) are among them.
Init ==
    /\ timeout \in {SomeTimeout}
    /\ workers \in {None} \cup 0..MaxWorkers
    /\ index \in {None, 0, MaxSize, MaxSize + 1}
    /\ batch \in 0..MaxBatch
    /\ pc = "start"
    /\ sizeLoop = Requesting
    /\ size = None
    /\ position = None
    /\ nextStart = None
    /\ started = 0
    /\ queue = <<>>
    /\ current = <<>>
    /\ delivered = <<>>
    /\ lastReturn = "none"
    /\ result = NoResult
    /\ malformed = None
    /\ budget = None
    /\ call = NoCall
    /\ ret = NoReturn

\* lib.rs 125-130
Start ==
    /\ pc = "start"
    /\ workers' = EffectiveWorkers(workers)
    /\ batch' = EffectiveBatch(batch)
    /\ timeout' = EffectiveTimeout(timeout)
    /\ pc' = "size"
    /\ UNCHANGED <<index, sizeLoop, size, position, nextStart, started,
                   queue, current, delivered, lastReturn, result>>
    /\ UNCHANGED <<envVars, budget>>

----
\* The tree size loop, lib.rs 132-162.

\* The sleep of the arm a response is matched by, None for `continue`.
SizeArmSleep(resp) ==
    IF resp.kind = "Limited" /\ resp.val # None THEN resp.val
    ELSE IF resp.kind = "Limited" THEN timeout
    ELSE IF resp.kind = "Unhandled" /\ resp.code = 400 THEN timeout
    ELSE None

SizeOutcome(resp) ==
    IF resp.kind = "Err" THEN
        /\ pc' = "done"
        /\ result' = ResponseError(resp.val, resp.code)
        /\ UNCHANGED <<sizeLoop, size, position, nextStart>>
    ELSE IF resp.kind = "Data" THEN
        /\ size' = resp.val
        /\ position' = Position(index, resp.val)
        /\ nextStart' = Position(index, resp.val)
        /\ pc' = "next"
        /\ UNCHANGED <<sizeLoop, result>>
    ELSE
        /\ sizeLoop' = IF SizeArmSleep(resp) = None THEN Retrying(resp)
                       ELSE Sleeping(SizeArmSleep(resp), resp)
        /\ UNCHANGED <<pc, size, position, nextStart, result>>

\* An answer that makes a loop try again: Limited, Unhandled or, to a
\* get-entries request, no entries.
Transient(resp, payload) ==
    \/ resp.kind \in {"Limited", "Unhandled"}
    \/ resp.kind = "Data" /\ payload = 0

\* A server whose transient answers are limited gives one fewer from now.
Spend(transient) ==
    /\ transient => budget # 0
    /\ budget' = IF transient /\ budget # None THEN budget - 1 ELSE budget

SizeResponse(code, h, treeSize) ==
    /\ pc = "size"
    /\ sizeLoop.pc = "request"
    /\ \E resp \in {get_log_size(code, h, treeSize)} :
           /\ Spend(Transient(resp, 1))
           /\ SizeOutcome(resp)
    /\ UNCHANGED <<timeout, workers, index, batch, started, queue, current,
                   delivered, lastReturn>>
    /\ UNCHANGED envVars

SizeWake ==
    /\ pc = "size"
    /\ sizeLoop.pc = "sleep"
    /\ sizeLoop' = Requesting
    /\ UNCHANGED <<timeout, workers, index, batch, pc, size, position,
                   nextStart, started, queue, current, delivered, lastReturn,
                   result>>
    /\ UNCHANGED <<envVars, budget>>

----
\* The fetch tasks, lib.rs 172-225.

NewTask(start) ==
    [start |-> start, collection |-> <<>>, reads |-> 0, pc |-> "request",
     dur |-> None, last |-> NoTag, err |-> NoResult]

\* lib.rs 177
RequestStartFixed(t) == t.start
RequestStart(t) == t.start + Len(t.collection)

RequestCountWhole(t) == batch

\* lib.rs 178
RequestCount(t) == batch - Len(t.collection)

\* endpoint.rs 328-330: the query of a request for count entries from
\* a position on.
Query(from, count) == [start |-> from, end |-> from + count]

\* RFC 6962 section 4.6: the entries a query names are those from start
\* to end, both included; a log returns them or the first of them.
Named(query) == query.start..query.end

\* lib.rs 180: the request a task issues.
Request(t) == Query(RequestStart(t), RequestCount(t))

TaskArmSleepTimeout(resp) ==
    IF resp.kind = "Data" /\ resp.val = <<>> THEN timeout
    ELSE IF resp.kind = "Data" THEN None
    ELSE IF resp.kind = "Limited" THEN timeout
    ELSE IF resp.kind = "Unhandled" /\ resp.code = 400 THEN timeout
    ELSE None

\* The sleep of the arm a response is matched by, None for `continue`.
TaskArmSleep(resp) ==
    IF resp.kind = "Data" /\ resp.val = <<>> THEN timeout
    ELSE IF resp.kind = "Data" THEN None
    ELSE IF resp.kind = "Limited" /\ resp.val # None THEN resp.val
    ELSE IF resp.kind = "Limited" THEN timeout
    ELSE IF resp.kind = "Unhandled" /\ resp.code = 400 THEN timeout
    ELSE None

\* lib.rs 196
Extend(collection, entries) == collection \o entries

TaskOutcomeBreak(t, resp) ==
    IF resp.kind = "Err" THEN
        [t EXCEPT !.pc = "failed", !.err = ResponseError(resp.val, resp.code)]
    ELSE IF resp.kind = "Data" /\ resp.val # <<>> THEN
        [t EXCEPT !.collection = Extend(t.collection, resp.val),
                  !.reads = t.reads + 1,
                  !.last = Tag(resp),
                  !.pc = IF Len(Extend(t.collection, resp.val)) < batch
                         THEN "request" ELSE "done"]
    ELSE IF resp.kind = "Data" THEN [t EXCEPT !.pc = "done"]
    ELSE IF TaskArmSleep(resp) = None THEN [t EXCEPT !.last = Tag(resp)]
    ELSE [t EXCEPT !.pc = "sleep", !.dur = TaskArmSleep(resp),
                   !.last = Tag(resp)]

TaskOutcomeCapped(t, resp) ==
    IF resp.kind = "Err" THEN
        [t EXCEPT !.pc = "failed", !.err = ResponseError(resp.val, resp.code)]
    ELSE IF resp.kind = "Data" /\ resp.val # <<>> THEN
        [t EXCEPT !.collection = Extend(t.collection, resp.val),
                  !.reads = t.reads + 1,
                  !.last = Tag(resp),
                  !.pc = IF Len(Extend(t.collection, resp.val)) < batch
                         THEN "request" ELSE "done"]
    ELSE IF budget = 1 THEN
        [t EXCEPT !.pc = "failed", !.err = ResponseError("Retries", resp.code)]
    ELSE IF TaskArmSleep(resp) = None THEN [t EXCEPT !.last = Tag(resp)]
    ELSE [t EXCEPT !.pc = "sleep", !.dur = TaskArmSleep(resp),
                   !.last = Tag(resp)]

\* One turn of the loop of a task, from the response to its request.
TaskOutcome(t, resp) ==
    IF resp.kind = "Err" THEN
        [t EXCEPT !.pc = "failed", !.err = ResponseError(resp.val, resp.code)]
    ELSE IF resp.kind = "Data" /\ resp.val # <<>> THEN
        [t EXCEPT !.collection = Extend(t.collection, resp.val),
                  !.reads = t.reads + 1,
                  !.last = Tag(resp),
                  !.pc = IF Len(Extend(t.collection, resp.val)) < batch
                         THEN "request" ELSE "done"]
    ELSE IF TaskArmSleep(resp) = None THEN [t EXCEPT !.last = Tag(resp)]
    ELSE [t EXCEPT !.pc = "sleep", !.dur = TaskArmSleep(resp),
                   !.last = Tag(resp)]

TaskResponseHandles(i, code, h, k) ==
    /\ i \in 1..Len(queue)
    /\ queue[i].pc = "request"
    /\ k \in 0..Cardinality(Named(Request(queue[i])))
    /\ \E resp \in {get_log_entries(code, h, Request(queue[i]).start, k)} :
           /\ Spend(Transient(resp, k))
           /\ queue' = [queue EXCEPT ![i] = TaskOutcome(@, resp)]
           /\ delivered' = IF resp.kind = "Data" THEN delivered \o resp.val
                           ELSE delivered
    /\ UNCHANGED <<timeout, workers, index, batch, pc, sizeLoop, size,
                   position, nextStart, started, current, lastReturn, result>>
    /\ UNCHANGED envVars

\* Task i receives the response to its get-entries request: status code,
\* Retry-After header h and, with a 200, k entries.  The task runs on the
\* runtime, whether or not stream still holds its JoinHandle.
TaskResponse(i, code, h, k) ==
    /\ i \in 1..Len(queue)
    /\ queue[i].pc = "request"
    /\ k \in 0..Cardinality(Named(Request(queue[i])))
    /\ \E resp \in {get_log_entries(code, h, Request(queue[i]).start, k)} :
           /\ Spend(Transient(resp, k))
           /\ queue' = [queue EXCEPT ![i] = TaskOutcome(@, resp)]
    /\ UNCHANGED <<timeout, workers, index, batch, pc, sizeLoop, size,
                   position, nextStart, started, current, delivered,
                   lastReturn, result>>
    /\ UNCHANGED envVars

TaskWake(i) ==
    /\ i \in 1..Len(queue)
    /\ queue[i].pc = "sleep"
    /\ queue' = [queue EXCEPT ![i].pc = "request", ![i].dur = None,
                              ![i].last = NoTag]
    /\ UNCHANGED <<timeout, workers, index, batch, pc, sizeLoop, size,
                   position, nextStart, started, current, delivered,
                   lastReturn, result>>
    /\ UNCHANGED <<envVars, budget>>

----
\* The delivery loop, lib.rs 166-167 and 226-234.

\* How many futures Buffered::poll_next pulls from the start sequence: it
\* pulls while the queue holds fewer than max of them.
SpawnCountOneMore(len, max) == IF len <= max THEN max + 1 - len ELSE 0
SpawnCount(len, max) == IF len < max THEN max - len ELSE 0

FillBeforeSize ==
    /\ pc \in {"size", "next"}
    /\ LET n == Min(SpawnCount(Len(queue), workers), MaxStarted - started)
       IN  /\ queue' = queue \o
                  [j \in 1..n |-> NewTask(nextStart + (j - 1) * batch)]
           /\ nextStart' = nextStart + n * batch
           /\ started' = started + n
    /\ pc' = "await"
    /\ UNCHANGED <<timeout, workers, index, batch, sizeLoop, size, position,
                   current, delivered, lastReturn, result>>
    /\ UNCHANGED <<envVars, budget>>

\* iterator.next() is polled: the queue is filled with new tasks.
Fill ==
    /\ pc = "next"
    /\ LET n == Min(SpawnCount(Len(queue), workers), MaxStarted - started)
       IN  /\ queue' = queue \o
                  [j \in 1..n |-> NewTask(nextStart + (j - 1) * batch)]
           /\ nextStart' = nextStart + n * batch
           /\ started' = started + n
    /\ pc' = "await"
    /\ UNCHANGED <<timeout, workers, index, batch, sizeLoop, size, position,
                   current, delivered, lastReturn, result>>
    /\ UNCHANGED <<envVars, budget>>

\* The tasks whose output buffered(workers) can yield next: it yields in
\* the order of submission, so only the oldest task, once it has ended.
ReadyUnordered(q) == {i \in 1..Len(q) : q[i].pc \in {"done", "failed"}}
Ready(q) == {i \in 1..Len(q) : i = 1 /\ q[i].pc \in {"done", "failed"}}

Remove(q, i) == SubSeq(q, 1, i - 1) \o SubSeq(q, i + 1, Len(q))

YieldDeliversCollected ==
    /\ pc = "await"
    /\ \E i \in Ready(queue) :
        /\ queue' = Remove(queue, i)
        /\ IF queue[i].pc = "failed" THEN
               /\ pc' = "done"
               /\ result' = queue[i].err
               /\ delivered' = delivered \o queue[i].collection
               /\ UNCHANGED current
           ELSE
               /\ current' = queue[i].collection
               /\ pc' = IF queue[i].collection = <<>> THEN "next"
                        ELSE "deliver"
               /\ UNCHANGED <<result, delivered>>
    /\ UNCHANGED <<timeout, workers, index, batch, sizeLoop, size, position,
                   nextStart, started, lastReturn>>
    /\ UNCHANGED <<envVars, budget>>

\* iterator.next() yields the result of a task; `??` returns its error from
\* stream, which drops the iterator and detaches the tasks left.
Yield ==
    /\ pc = "await"
    /\ \E i \in Ready(queue) :
        /\ queue' = Remove(queue, i)
        /\ IF queue[i].pc = "failed" THEN
               /\ pc' = "done"
               /\ result' = queue[i].err
               /\ UNCHANGED current
           ELSE
               /\ current' = queue[i].collection
               /\ pc' = IF queue[i].collection = <<>> THEN "next"
                        ELSE "deliver"
               /\ UNCHANGED result
    /\ UNCHANGED <<timeout, workers, index, batch, sizeLoop, size, position,
                   nextStart, started, delivered, lastReturn>>
    /\ UNCHANGED <<envVars, budget>>

DeliverEndsWithBatch(continue) ==
    /\ pc = "deliver"
    /\ current # <<>>
    /\ delivered' = Append(delivered, Head(current))
    /\ lastReturn' = IF continue THEN "continue" ELSE "stop"
    /\ IF continue /\ Tail(current) # <<>> THEN
           /\ current' = Tail(current)
           /\ pc' = "deliver"
           /\ UNCHANGED result
       ELSE
           /\ current' = <<>>
           /\ pc' = "done"
           /\ result' = Ok
    /\ UNCHANGED <<timeout, workers, index, batch, sizeLoop, size, position,
                   nextStart, started, queue>>
    /\ UNCHANGED <<envVars, budget>>

DeliverIgnoresStop(continue) ==
    /\ pc = "deliver"
    /\ current # <<>>
    /\ delivered' = Append(delivered, Head(current))
    /\ lastReturn' = IF continue THEN "continue" ELSE "stop"
    /\ IF continue \/ Tail(current) # <<>> THEN
           /\ current' = Tail(current)
           /\ pc' = IF Tail(current) = <<>> THEN "next" ELSE "deliver"
           /\ UNCHANGED result
       ELSE
           /\ current' = <<>>
           /\ pc' = "done"
           /\ result' = Ok
    /\ UNCHANGED <<timeout, workers, index, batch, sizeLoop, size, position,
                   nextStart, started, queue>>
    /\ UNCHANGED <<envVars, budget>>

\* handler(entry) is called and returns continue or stop, lib.rs 229-233.
Deliver(continue) ==
    /\ pc = "deliver"
    /\ current # <<>>
    /\ delivered' = Append(delivered, Head(current))
    /\ lastReturn' = IF continue THEN "continue" ELSE "stop"
    /\ IF continue THEN
           /\ current' = Tail(current)
           /\ pc' = IF Tail(current) = <<>> THEN "next" ELSE "deliver"
           /\ UNCHANGED result
       ELSE
           /\ current' = <<>>
           /\ pc' = "done"
           /\ result' = Ok
    /\ UNCHANGED <<timeout, workers, index, batch, sizeLoop, size, position,
                   nextStart, started, queue>>
    /\ UNCHANGED <<envVars, budget>>

----
Next ==
    \/ Start
    \/ \E code \in Codes : \E h \in HeadersOf(code) :
           \E treeSize \in PayloadsOf(code, MaxSize) :
               SizeResponse(code, h, treeSize)
    \/ SizeWake
    \/ \E i \in 1..Len(queue) : \E code \in Codes : \E h \in HeadersOf(code) :
           \E k \in PayloadsOf(code, RequestCount(queue[i])) :
               TaskResponse(i, code, h, k)
    \/ \E i \in 1..Len(queue) : TaskWake(i)
    \/ Fill
    \/ Yield
    \/ \E continue \in BOOLEAN : Deliver(continue)

Spec == Init /\ [][Next]_vars

\* The configurations with a batch set, batch(0) among them, and timeout,
\* workers and index each unset or set; and those with nothing set but,
\* maybe, the workers.
InitConfig ==
    /\ workers \in {None} \cup 0..MaxWorkers
    /\ \/ /\ batch \in 0..MaxBatch
          /\ timeout \in {None, SomeTimeout}
          /\ index \in {None, 0}
       \/ /\ batch = None
          /\ timeout = None
          /\ index = None
    /\ pc = "start"
    /\ sizeLoop = Requesting
    /\ size = None
    /\ position = None
    /\ nextStart = None
    /\ started = 0
    /\ queue = <<>>
    /\ current = <<>>
    /\ delivered = <<>>
    /\ lastReturn = "none"
    /\ result = NoResult
    /\ malformed = None
    /\ budget = None
    /\ call = NoCall
    /\ ret = NoReturn

\* The server answers a get-entries request in full or not at all, and
\* the run is followed for MaxCalls calls of the handler.
NextConfig ==
    \/ Start
    \/ \E code \in Codes : \E h \in HeadersOf(code) :
           \E treeSize \in PayloadsOf(code, MaxSize) :
               SizeResponse(code, h, treeSize)
    \/ SizeWake
    \/ \E i \in 1..Len(queue) : \E code \in Codes : \E h \in HeadersOf(code) :
           \E k \in PayloadsOf(code, RequestCount(queue[i])) :
               (k \in {0, RequestCount(queue[i])}) /\ TaskResponse(i, code, h, k)
    \/ \E i \in 1..Len(queue) : TaskWake(i)
    \/ Fill
    \/ Yield
    \/ \E continue \in BOOLEAN :
           Len(delivered) < MaxCalls /\ Deliver(continue)

SpecConfig == InitConfig /\ [][NextConfig]_vars

\* stream from index 0 against a server that gives MaxRetries answers
\* that are Limited, Unhandled or empty, and then none but data and errors.
InitRetry ==
    /\ timeout = SomeTimeout
    /\ workers \in {None, 1}
    /\ index = 0
    /\ batch \in {1, 2}
    /\ pc = "start"
    /\ sizeLoop = Requesting
    /\ size = None
    /\ position = None
    /\ nextStart = None
    /\ started = 0
    /\ queue = <<>>
    /\ current = <<>>
    /\ delivered = <<>>
    /\ lastReturn = "none"
    /\ result = NoResult
    /\ malformed = None
    /\ budget = MaxRetries
    /\ call = NoCall
    /\ ret = NoReturn

\* Every request is answered, every sleep ends, and the runtime runs
\* every task and stream itself.
SpecRetry == InitRetry /\ [][Next]_vars /\ WF_vars(Next)

\* stream from index 0 of a log that holds one leaf of version 1.
InitLog ==
    /\ timeout = SomeTimeout
    /\ workers \in {None, 1}
    /\ index = 0
    /\ batch \in 1..MaxBatch
    /\ pc = "start"
    /\ sizeLoop = Requesting
    /\ size = None
    /\ position = None
    /\ nextStart = None
    /\ started = 0
    /\ queue = <<>>
    /\ current = <<>>
    /\ delivered = <<>>
    /\ lastReturn = "none"
    /\ result = NoResult
    /\ malformed \in 0..MaxBatch
    /\ budget = None
    /\ call = NoCall
    /\ ret = NoReturn

SpecLog == InitLog /\ [][Next]_vars

\* stream from index 0 of a log that answers a get-entries request with
\* up to all the entries its query names.
InitRange ==
    /\ timeout = SomeTimeout
    /\ workers \in {None, 1}
    /\ index = 0
    /\ batch \in 1..MaxBatch
    /\ pc = "start"
    /\ sizeLoop = Requesting
    /\ size = None
    /\ position = None
    /\ nextStart = None
    /\ started = 0
    /\ queue = <<>>
    /\ current = <<>>
    /\ delivered = <<>>
    /\ lastReturn = "none"
    /\ result = NoResult
    /\ malformed = None
    /\ budget = None
    /\ call = NoCall
    /\ ret = NoReturn

NextRange ==
    \/ Start
    \/ \E code \in Codes : \E h \in HeadersOf(code) :
           \E treeSize \in PayloadsOf(code, MaxSize) :
               SizeResponse(code, h, treeSize)
    \/ SizeWake
    \/ \E i \in 1..Len(queue) : \E code \in Codes : \E h \in HeadersOf(code) :
           \E k \in PayloadsOf(code, Cardinality(Named(Request(queue[i])))) :
               TaskResponse(i, code, h, k)
    \/ \E i \in 1..Len(queue) : TaskWake(i)
    \/ Fill
    \/ Yield
    \/ \E continue \in BOOLEAN : Deliver(continue)

SpecRange == InitRange /\ [][NextRange]_vars

----
\* The functions of the endpoint client and of the certificate parser, each
\* called on its own with one input.

streamVars == <<timeout, workers, index, batch, pc, sizeLoop, size, position,
                nextStart, started, queue, current, delivered, lastReturn,
                result>>

\* stream is not running.
Idle ==
    /\ timeout = None
    /\ workers = None
    /\ index = None
    /\ batch = None
    /\ pc = "idle"
    /\ sizeLoop = Requesting
    /\ size = None
    /\ position = None
    /\ nextStart = None
    /\ started = 0
    /\ queue = <<>>
    /\ current = <<>>
    /\ delivered = <<>>
    /\ lastReturn = "none"
    /\ result = NoResult
    /\ malformed = None
    /\ budget = None

\* Every status a response can have (http::StatusCode).
StatusCodes == 100..999

\* The time of the call, and the dates a Retry-After header names
\* relative to it: yesterday, a minute ago, now, in half a minute, in
\* half a day and a second (which is tomorrow) and in one day.
Noon == SecondsPerDay + SecondsPerDay \div 2
DateOffsets == {0 - SecondsPerDay, 0 - 60, 0, 30,
                SecondsPerDay \div 2 + 1, SecondsPerDay}
DateHeaders == {DateHeader(Noon + d) : d \in DateOffsets}
CallHeadersOf(code) == IF code = 429 THEN Headers \cup DateHeaders
                       ELSE {NoHeader}

StatusCalls(fn) ==
    {[fn |-> fn, code |-> code, h |-> h, now |-> Noon, payload |-> k] :
        code \in StatusCodes, h \in Headers \cup DateHeaders, k \in 0..1}

\* The leaves parse_log_entry is called with: every prefix of a leaf with
\* a version, a leaf type and an entry type that are supported or not; a
\* whole supported leaf comes with a chain of up to MaxChain certificates.
Versions == {0, 1, 2}
Variants == {0, 1, 3}
EntryVariants == {0, 1, 2, 256}
SomeMillis == 1999
BodyOf(entryVariant) ==
    IF entryVariant = 1 THEN PrecertBody(Der(1)) ELSE X509Body(Der(1))
Certs(n) == [j \in 1..n |-> Der(j + 1)]
ExtrasOf(entryVariant) ==
    {IF entryVariant = 1 THEN PrecertExtra(Der(1), Certs(n))
     ELSE ChainBytes(Certs(n)) : n \in 0..MaxChain}

LeafCalls ==
    UNION {LET leaf == MerkleTreeLeaf(v, t, SomeMillis, e, BodyOf(e))
           IN  {[fn |-> "parse_log_entry", data |-> SubSeq(leaf, 1, n),
                 extra_data |-> x] :
                    n \in 0..Len(leaf),
                    x \in IF v = 0 /\ t = 0 /\ e \in {0, 1}
                          THEN ExtrasOf(e) ELSE {<<>>}} :
           v \in Versions, t \in Variants, e \in EntryVariants}

\* The timestamps of the leaves parse_log_entry is called with, in
\* milliseconds, each a u64 in eight bytes: those with one byte set and the
\* others zero, the last millisecond of the last second NaiveDateTime
\* holds (8210298412799999) and the first after it, and 2^64 - 1.
LeafMillis ==
    {[j \in 1..8 |-> IF j = at THEN byte ELSE 0] :
        at \in 1..8, byte \in {0, 1, 128, 255}}
    \cup {<<0, 29, 43, 57, 16, 101, 23, 255>>,
          <<0, 29, 43, 57, 16, 101, 24, 0>>,
          [j \in 1..8 |-> 255]}

LeafAt(millis, entryVariant) ==
    <<0, 0>> \o millis \o U16(entryVariant) \o BodyOf(entryVariant)

TimestampCalls ==
    {[fn |-> "parse_log_entry", data |-> LeafAt(millis, e),
      extra_data |-> IF e = 1 THEN PrecertExtra(Der(1), <<>>)
                     ELSE ChainBytes(<<>>)] :
        millis \in LeafMillis, e \in {0, 1}}

\* The timestamps from_timestamps is called with, around the epoch and
\* the ends of a day.
Stamps == {0 - SecondsPerDay - 1, 0 - SecondsPerDay, 0 - 1, 0, 1,
           SecondsPerDay - 1, SecondsPerDay, SomeMillis}
ValidityCalls ==
    {[fn |-> "from_timestamps", begin |-> a, end |-> b] :
        a \in Stamps, b \in Stamps}

\* The subject names and the extensions a certificate is parsed with.
NoName == [some |-> FALSE, text |-> ""]
SomeName(text) == [some |-> TRUE, text |-> text]
SubjectNames == {NoName, SomeName("a.example"), SomeName("10.0.0.1"),
                 SomeName("::1")}
Loopback6 == [j \in 1..16 |-> IF j = 16 THEN 1 ELSE 0]
GeneralNames ==
    {GeneralName("DNSName", "a.example", <<>>),
     GeneralName("DNSName", "b.example", <<>>),
     GeneralName("URI", "a.example", <<>>),
     GeneralName("RFC822Name", "c@a.example", <<>>),
     GeneralName("DirectoryName", "CN=a.example", <<>>),
     GeneralName("IPAddress", "", <<10, 0, 0, 1>>),
     GeneralName("IPAddress", "", Loopback6),
     GeneralName("IPAddress", "", <<10, 0, 0>>),
     GeneralName("OtherName", "a.example", <<>>)}
NameSeqs == UNION {[1..n -> GeneralNames] : n \in 0..MaxNames}
AlternateCalls ==
    {[fn |-> "subject_alternate", subject_name |-> cn, general_names |-> g] :
        cn \in SubjectNames, g \in NameSeqs}

InitCodec ==
    /\ Idle
    /\ ret = NoReturn
    /\ \/ \E c \in StatusCalls("get_log_size") :
              c.h \in CallHeadersOf(c.code) /\ c.payload = 1 /\ call = c
       \/ \E c \in StatusCalls("get_log_entries") :
              /\ c.h \in CallHeadersOf(c.code)
              /\ c.code # 200 => c.payload = 0
              /\ call = c
       \/ call \in LeafCalls
       \/ call \in TimestampCalls
       \/ call \in ValidityCalls
       \/ call \in AlternateCalls

Return(v) == [done |-> TRUE, val |-> v]

GetLogSize ==
    /\ call.fn = "get_log_size"
    /\ ~ret.done
    /\ ret' = Return(get_log_size(call.code, call.h, call.payload))
    /\ UNCHANGED <<streamVars, malformed, budget, call>>

GetLogEntries ==
    /\ call.fn = "get_log_entries"
    /\ ~ret.done
    /\ ret' = Return(get_log_entries(call.code, call.h, 0, call.payload))
    /\ UNCHANGED <<streamVars, malformed, budget, call>>

ParseLogEntry ==
    /\ call.fn = "parse_log_entry"
    /\ ~ret.done
    /\ ret' = Return(parse_log_entry(call.data, call.extra_data))
    /\ UNCHANGED <<streamVars, malformed, budget, call>>

FromTimestamps ==
    /\ call.fn = "from_timestamps"
    /\ ~ret.done
    /\ ret' = Return(from_timestamps(call.begin, call.end))
    /\ UNCHANGED <<streamVars, malformed, budget, call>>

SubjectAlternate ==
    /\ call.fn = "subject_alternate"
    /\ ~ret.done
    /\ ret' = Return(subject_alternate(call.subject_name, call.general_names))
    /\ UNCHANGED <<streamVars, malformed, budget, call>>

NextCodec ==
    \/ GetLogSize
    \/ GetLogEntries
    \/ ParseLogEntry
    \/ FromTimestamps
    \/ SubjectAlternate

SpecCodec == InitCodec /\ [][NextCodec]_vars

----
\* Properties of stream.

Tasks == 1..Len(queue)

StrictlyIncreasing(seq) ==
    \A j \in 1..Len(seq) : \A l \in 1..Len(seq) : j < l => seq[j] < seq[l]

\* C1: the log indices the handler is called with are strictly increasing
\* and the first of them is the effective start position, for every batch
\* size, worker count and order in which the fetch tasks complete.
C1_Ordering ==
    /\ StrictlyIncreasing(delivered)
    /\ delivered # <<>> => delivered[1] = position

\* A batch of two entries has been delivered and, of the two tasks in the
\* queue, the younger has completed before the one awaited.
C1_Witness ==
    /\ workers >= 2
    /\ Len(delivered) >= 2
    /\ Len(queue) >= 2
    /\ queue[1].pc # "done"
    /\ queue[2].pc = "done"

\* C2: the tasks spawned and not yet yielded to the delivery loop, and with
\* them the get-entries requests in flight, are never more than the
\* effective workers.
C2_ConcurrencyBound ==
    pc # "start" =>
        /\ Len(queue) <= workers
        /\ Cardinality({i \in Tasks : queue[i].pc = "request"}) <= workers

\* The queue is full and every task of it has a request in flight.
C2_Witness ==
    /\ workers >= 2
    /\ Len(queue) = workers
    /\ \A i \in Tasks : queue[i].pc = "request"
    /\ delivered # <<>>

\* The entries of the batch that starts at s.
BatchOf(s) == [j \in 1..batch |-> s + j - 1]

\* C3: under short reads a task returns exactly the batch entries
\* s .. s+batch-1 of its start s in order, and the handler gets all of them
\* before any entry of the next batch.
C3_Exactness ==
    /\ \A i \in Tasks :
           /\ queue[i].pc = "done" => queue[i].collection = BatchOf(queue[i].start)
           /\ queue[i].pc = "request" => Len(queue[i].collection) < batch
    /\ \A j \in 1..Len(delivered) : delivered[j] = position + j - 1
    /\ pc = "deliver" =>
           /\ current # <<>>
           /\ Head(current) = position + Len(delivered)
           /\ \E n \in 0..MaxStarted :
                  current = SubSeq(BatchOf(position + n * batch),
                                   batch - Len(current) + 1, batch)

\* A batch stitched from two short reads has been delivered in part while
\* the next batch, stitched as well, waits complete in the queue.
C3_Witness ==
    /\ batch >= 2
    /\ pc = "deliver"
    /\ Len(current) < batch
    /\ queue # <<>>
    /\ queue[1].pc = "done"
    /\ queue[1].reads >= 2

\* C4: stream returns Ok(()) only when the latest call of the handler
\* returned stop.
C4_OkOnlyOnStop ==
    result.kind = "Ok" => lastReturn = "stop"

\* stream has returned Ok(()) after calls that returned continue.
C4_Witness ==
    /\ result.kind = "Ok"
    /\ Len(delivered) >= 2

\* C5: when the handler returns stop, stream returns Ok(()) and the handler
\* is not called again, neither for the rest of the batch nor for a batch
\* that is fetched or in flight.
C5_StopEnds ==
    /\ [](lastReturn = "stop" =>
              /\ pc = "done"
              /\ result = Ok
              /\ current = <<>>)
    /\ [][lastReturn = "stop" =>
              /\ delivered' = delivered
              /\ lastReturn' = "stop"]_vars

\* The handler stopped in the middle of a batch while the next batch was
\* in flight.
C5_Witness ==
    /\ lastReturn = "stop"
    /\ batch >= 2
    /\ Len(delivered) % batch = 1
    /\ queue # <<>>
    /\ queue[1].pc = "request"

\* C6: once stream has returned because the handler stopped, no fetch task
\* that was in flight issues a further get-entries request or goes on with a
\* retry sleep.
C6_Abandoned ==
    [][result.kind = "Ok" =>
           \A i \in Tasks :
               /\ queue[i].pc = "sleep" => queue'[i] = queue[i]
               /\ queue'[i].pc = "request" => queue'[i] = queue[i]]_vars

\* The error a status ends stream with, "none" when the status is not
\* terminal.
TerminalClass(code) ==
    IF code >= 500 /\ code <= 599 THEN "Server"
    ELSE IF code >= 401 /\ code <= 499 /\ code # 429 THEN "Client"
    ELSE "none"

\* C7: one status in 500..599, or in 401..499 other than 429, on get-sth or
\* on a get-entries request of the batch awaited is not retried: stream
\* returns Err with ResponseError::Server(code), respectively Client(code),
\* and the handler is not called afterwards.
C7_TerminalStatus ==
    /\ [][\A code \in Codes : \A n \in PayloadsOf(code, MaxSize) :
              (TerminalClass(code) # "none" /\ SizeResponse(code, NoHeader, n))
              => /\ pc' = "done"
                 /\ result' = ResponseError(TerminalClass(code), code)]_vars
    /\ [][\A i \in Tasks : \A code \in Codes :
              (TerminalClass(code) # "none" /\ TaskResponse(i, code, NoHeader, 0))
              => /\ queue'[i].pc = "failed"
                 /\ queue'[i].err = ResponseError(TerminalClass(code), code)]_vars
    /\ [][(pc = "await" /\ queue # <<>> /\ Head(queue).pc = "failed")
              => /\ delivered' = delivered
                 /\ pc' # pc => (pc' = "done" /\ result' = Head(queue).err)]_vars
    /\ [][result.kind = "Err"
              => (result' = result /\ pc' = "done" /\ delivered' = delivered)]_vars

\* stream has returned Server(500) of a batch it awaited, after deliveries
\* of the batch before.
C7_Witness ==
    /\ result = ResponseError("Server", 500)
    /\ delivered # <<>>
    /\ pc = "done"

\* The sleep the retry rules prescribe for an outcome, None for a retry
\* without sleep.
Prescribed(outcome) ==
    CASE outcome.kind = "Limited" /\ outcome.val # None -> outcome.val
      [] outcome.kind = "Limited" /\ outcome.val = None -> timeout
      [] outcome.kind = "Unhandled" /\ outcome.code = 400 -> timeout
      [] OTHER -> None

Retried(code) == code # 200 /\ TerminalClass(code) = "none"

\* C8: in both retry loops an outcome that is neither data nor an error is
\* followed by one retry after the prescribed sleep: Limited(Some(d)) sleeps
\* d, Limited(None) and Unhandled(400) sleep the timeout, another Unhandled
\* code does not sleep; a sleep ends in the retry and in nothing else.
C8_RetrySleeps ==
    /\ [][\A code \in Codes : \A h \in HeadersOf(code) :
              (Retried(code) /\ SizeResponse(code, h, 0))
              => LET d == Prescribed(get_log_size(code, h, 0))
                 IN  /\ pc' = "size"
                     /\ d = None => sizeLoop' =
                            Retrying(get_log_size(code, h, 0))
                     /\ d # None => (sizeLoop'.pc = "sleep" /\ sizeLoop'.dur = d)]_vars
    /\ [][\A i \in Tasks : \A code \in Codes : \A h \in HeadersOf(code) :
              (Retried(code) /\ TaskResponse(i, code, h, 0))
              => LET d == Prescribed(get_log_entries(code, h, 0, 0))
                 IN  /\ d = None => queue'[i] = [queue[i] EXCEPT
                            !.last = get_log_entries(code, h, 0, 0)]
                     /\ d # None => queue'[i] = [queue[i] EXCEPT
                            !.pc = "sleep", !.dur = d,
                            !.last = get_log_entries(code, h, 0, 0)]]_vars
    /\ [](sizeLoop.pc = "sleep" => sizeLoop.dur = Prescribed(sizeLoop.last))
    /\ [](\A i \in Tasks :
              (queue[i].pc = "sleep" /\ queue[i].last.kind # "Empty")
              => queue[i].dur = Prescribed(queue[i].last))
    /\ [](\A i \in Tasks : queue[i].pc = "sleep" =>
              /\ queue[i].last.code = 429 /\ queue[i].last.val = RetryAfterSecs
                     => queue[i].dur = RetryAfterSecs
              /\ queue[i].last.code = 400 => queue[i].dur = timeout)
    /\ [][(sizeLoop.pc = "sleep" /\ sizeLoop' # sizeLoop)
              => (sizeLoop' = Requesting /\ pc' = "size")]_vars
    /\ [][\A i \in Tasks :
              (queue[i].pc = "sleep" /\ Len(queue') >= Len(queue)
                  /\ queue'[i] # queue[i])
              => queue'[i] = [queue[i] EXCEPT !.pc = "request",
                                 !.dur = None, !.last = NoTag]]_vars

\* A task sleeps the two seconds of a Retry-After header while another
\* sleeps the timeout after a 400.
C8_Witness ==
    /\ Len(queue) >= 2
    /\ queue[1].pc = "sleep"
    /\ queue[1].last = Limited(RetryAfterSecs)
    /\ queue[1].dur = RetryAfterSecs
    /\ queue[2].pc = "sleep"
    /\ queue[2].last = Unhandled(400)
    /\ queue[2].dur = timeout
    /\ timeout = SomeTimeout

\* C9: a 200 with no entries makes the task sleep the timeout and repeat
\* the request with the same start and count, as Unhandled(400) does; its
\* collection is unchanged and it neither completes nor fails.
C9_EmptyIsRetried ==
    /\ [][\A i \in Tasks :
              TaskResponse(i, 200, NoHeader, 0)
              => /\ queue'[i] = [queue[i] EXCEPT !.pc = "sleep",
                                    !.dur = timeout, !.last = Tag(Data(<<>>))]
                 /\ [queue'[i] EXCEPT !.last = NoTag] =
                        [TaskOutcome(queue[i], Unhandled(400))
                             EXCEPT !.last = NoTag]]_vars
    /\ [](\A i \in Tasks :
              (queue[i].pc = "sleep" /\ queue[i].last.kind = "Empty")
              => queue[i].dur = timeout)
    /\ [][\A i \in Tasks :
              (queue[i].pc = "sleep" /\ queue[i].last.kind = "Empty"
                  /\ Len(queue') >= Len(queue) /\ queue'[i] # queue[i])
              => /\ queue'[i].pc = "request"
                 /\ queue'[i].collection = queue[i].collection
                 /\ RequestStart(queue'[i]) = RequestStart(queue[i])
                 /\ RequestCount(queue'[i]) = RequestCount(queue[i])]_vars

\* A task that holds one entry of a short read sleeps the configured
\* timeout after an empty 200.
C9_Witness ==
    \E i \in Tasks :
        /\ queue[i].pc = "sleep"
        /\ queue[i].last.kind = "Empty"
        /\ queue[i].collection # <<>>
        /\ queue[i].dur = SomeTimeout

\* C10: the effective start position is min(index, tree_size) with an index
\* configured and tree_size without, tree_size being what the first
\* successful get-sth returned; the first batch starts at that position.
C10_StartPosition ==
    /\ [](position # None =>
              /\ size # None
              /\ index = None => position = size
              /\ index # None =>
                     position = (IF index <= size THEN index ELSE size))
    /\ [][\A n \in 0..MaxSize :
              SizeResponse(200, NoHeader, n) => (size' = n /\ pc' = "next")]_vars
    /\ [][size # None => (size' = size /\ position' = position)]_vars
    /\ [][(started = 0 /\ started' > 0) => queue'[1].start = position]_vars

\* The configured index lies beyond the tree size and the first batch has
\* started at the tree size.
C10_Witness ==
    /\ index # None
    /\ size # None
    /\ index > size
    /\ size > 0
    /\ delivered # <<>>
    /\ delivered[1] = size

\* C17: whatever the configuration, workers(0) and batch(0) included, the
\* workers and the batch stream goes on with are at least 1, the batch
\* 1000 when none is set; so the start of each batch is beyond the one
\* before and no task asks for zero entries with its first request.
C17_EffectiveConfig ==
    /\ [][pc = "start" /\ pc' # "start" =>
              /\ workers' >= 1
              /\ workers >= 1 => workers' = workers
              /\ batch' >= 1
              /\ batch = None => batch' = 1000
              /\ batch >= 1 => batch' = batch]_vars
    /\ [](pc # "start" => workers >= 1 /\ batch >= 1)
    /\ [][nextStart # None => nextStart' >= nextStart]_vars
    /\ [](\A i \in Tasks : \A j \in Tasks :
              i < j => queue[i].start < queue[j].start)
    /\ [](\A i \in Tasks :
              queue[i].pc = "request" /\ queue[i].collection = <<>>
                  => RequestCount(queue[i]) >= 1)

\* With no batch set, two batches were started 1000 entries apart, and the
\* first has its 1000 entries from one request.
C17_Witness ==
    /\ Len(queue) = 2
    /\ batch = 1000
    /\ queue[2].start = queue[1].start + 1000
    /\ queue[1].pc = "done"
    /\ queue[1].reads = 1
    /\ Len(queue[1].collection) = 1000

\* C18: the retry loops have no cap.  However many Limited, Unhandled or
\* empty outcomes a loop has had, one more leaves it running, a Data
\* outcome that follows is taken, and only an error response ends it
\* with an error; so when finitely many such outcomes come, every loop
\* returns.
C18_NoRetryCap ==
    /\ [][\A code \in Codes : \A h \in HeadersOf(code) :
              \A n \in PayloadsOf(code, MaxSize) :
                  (TerminalClass(code) = "none" /\ SizeResponse(code, h, n))
                  => /\ result' = result
                     /\ code = 200 => size' = n /\ pc' = "next"
                     /\ code # 200 => pc' = "size"]_vars
    /\ [][\A i \in Tasks : \A code \in Codes : \A h \in HeadersOf(code) :
              \A k \in PayloadsOf(code, MaxBatch) :
                  (TerminalClass(code) = "none" /\ TaskResponse(i, code, h, k))
                  => /\ queue'[i].pc # "failed"
                     /\ queue'[i].err = NoResult
                     /\ Len(queue'[i].collection)
                            = Len(queue[i].collection) + k]_vars
    /\ <>[](/\ pc # "size"
            /\ \A i \in Tasks : queue[i].pc \in {"done", "failed"})

\* A task has its batch after the server's MaxRetries other answers, all
\* of which it got itself.
C18_Witness ==
    /\ budget = 0
    /\ sizeLoop.last = NoTag
    /\ started = 1
    /\ Len(queue) = 1
    /\ queue[1].pc = "done"
    /\ Len(queue[1].collection) = batch

\* C19: every get-entries request of the task of the batch that starts at
\* s asks for batch - collected entries from index s + collected on,
\* collected being the entries the task has so far; the answer is added
\* to them, and a sleep or a retry leaves them as they are.
C19_RequestRange ==
    /\ [](\A i \in Tasks :
              queue[i].pc = "request" =>
                  LET s == queue[i].start
                      collected == Len(queue[i].collection)
                  IN  /\ Request(queue[i]).start = s + collected
                      /\ Request(queue[i]).end - Request(queue[i]).start
                             = batch - collected)
    /\ [][\A i \in Tasks :
              Len(queue') = Len(queue) /\ queue'[i] # queue[i] =>
                  LET s == queue[i].start
                      collected == Len(queue[i].collection)
                      k == Len(queue'[i].collection) - collected
                  IN  /\ k >= 0
                      /\ k <= batch - collected
                      /\ queue[i].pc = "sleep" => k = 0
                      /\ queue'[i].collection = queue[i].collection \o
                             [j \in 1..k |-> s + collected + j - 1]]_vars

\* A task that has one entry of its batch of two was answered with a
\* status it retries at once, and asks again.
C19_Witness ==
    \E i \in Tasks :
        /\ batch = 2
        /\ queue[i].start > 0
        /\ Len(queue[i].collection) = 1
        /\ queue[i].pc = "request"
        /\ queue[i].last.kind = "Unhandled"

\* C20: the handler is called by the delivery loop of stream alone, never
\* by a fetch task, and one call at a time: what is delivered grows by one
\* entry, the head of the batch stream holds, in a step of the delivery
\* loop that changes no task, whatever the workers.
C20_SingleConsumer ==
    [][delivered' # delivered =>
           /\ pc = "deliver"
           /\ current # <<>>
           /\ delivered' = Append(delivered, Head(current))
           /\ queue' = queue
           /\ lastReturn' \in {"continue", "stop"}]_vars

\* With two workers the handler was called with an entry and is about to
\* be called with the next, while a task is fetching.
C20_Witness ==
    /\ workers = 2
    /\ delivered # <<>>
    /\ pc = "deliver"
    /\ queue # <<>>
    /\ queue[1].pc = "request"
    /\ queue[1].collection # <<>>

----
\* Properties of the endpoint client and of the certificate parser.

Returned(fn) == call.fn = fn /\ ret.done

\* C11: get_log_size and get_log_entries map every status alike: 200 to
\* Data, 429 to Limited, 400 to Unhandled(400), every other status of
\* 401..499 to Err(Client(code)), 500..599 to Err(Server(code)) and any
\* other status to Unhandled(code).
C11_StatusMapping ==
    Returned("get_log_size") \/ Returned("get_log_entries") =>
        LET code == call.code
            r == ret.val
        IN  IF code = 200 THEN r.kind = "Data"
            ELSE IF code = 429 THEN r.kind = "Limited"
            ELSE IF code = 400 THEN r.kind = "Unhandled" /\ r.code = 400
            ELSE IF code \in 401..499
                THEN r.kind = "Err" /\ r.val = "Client" /\ r.code = code
            ELSE IF code \in 500..599
                THEN r.kind = "Err" /\ r.val = "Server" /\ r.code = code
            ELSE r.kind = "Unhandled" /\ r.code = code

\* get_log_size has answered a 400 and get_log_entries a 499.
C11_Witness ==
    \/ Returned("get_log_size") /\ call.code = 400
           /\ ret.val.kind = "Unhandled"
    \/ Returned("get_log_entries") /\ call.code = 499
           /\ ret.val.kind = "Err"

\* C12: a 429 whose Retry-After header is an RFC 2822 date is Limited with
\* the seconds from now to that date, and with zero seconds when the date
\* is past; without a header, or with one that does not parse, it is
\* Limited(None).
C12_RetryAfterDate ==
    (Returned("get_log_size") \/ Returned("get_log_entries"))
        /\ call.code = 429 =>
            /\ ret.val.kind = "Limited"
            /\ call.h.form = "date" =>
                   ret.val.val = AsU64(Max(call.h.secs - call.now, 0))
            /\ call.h.form \in {"absent", "garbage"} => ret.val.val = None

\* The header of a leaf: version, leaf type, timestamp and entry type.
HeaderLen == 12
IsLogError(r, type, val) == ~r.ok /\ r.type = type /\ r.val = val

\* C14 as stated: whatever the bytes of leaf_input, a first byte v other
\* than 0 gives UnsupportedVersion(v); version 0 and a second byte t other
\* than 0 gives UnsupportedLeaf(t); version 0, leaf type 0 and a 16-bit
\* entry type e other than 0 and 1 gives UnsupportedEntry(e).
C14_Rejects ==
    Returned("parse_log_entry") =>
        LET d == call.data
            r == ret.val
        IN  /\ Len(d) >= 1 /\ d[1] # 0 =>
                   IsLogError(r, "UnsupportedVersion", d[1])
            /\ Len(d) >= 2 /\ d[1] = 0 /\ d[2] # 0 =>
                   IsLogError(r, "UnsupportedLeaf", d[2])
            /\ Len(d) >= HeaderLen /\ d[1] = 0 /\ d[2] = 0
                   /\ ReadUInt(d, 10, 2) \notin {0, 1} =>
                   IsLogError(r, "UnsupportedEntry", ReadUInt(d, 10, 2))

\* C14 amended: the same of every leaf_input that holds the twelve bytes
\* of the header, and a shorter leaf_input gives a Parse error.
C14_RejectsWholeHeader ==
    Returned("parse_log_entry") =>
        LET d == call.data
            r == ret.val
        IN  IF Len(d) < HeaderLen THEN ~r.ok /\ r.type = "Parse"
            ELSE /\ d[1] # 0 => IsLogError(r, "UnsupportedVersion", d[1])
                 /\ d[1] = 0 /\ d[2] # 0 =>
                        IsLogError(r, "UnsupportedLeaf", d[2])
                 /\ d[1] = 0 /\ d[2] = 0
                        /\ ReadUInt(d, 10, 2) \notin {0, 1} =>
                        IsLogError(r, "UnsupportedEntry", ReadUInt(d, 10, 2))

\* A whole leaf of version 2 was rejected for its version, and a leaf of
\* version 1 that ends within its timestamp was rejected as unreadable.
C14_Witness ==
    /\ Returned("parse_log_entry")
    /\ \/ Len(call.data) > HeaderLen /\ call.data[1] = 2
           /\ IsLogError(ret.val, "UnsupportedVersion", 2)
       \/ Len(call.data) = 5 /\ call.data[1] = 1 /\ ~ret.val.ok
           /\ ret.val.type = "Parse"

RECURSIVE InOrderOf(_, _)
InOrderOf(sub, seq) ==
    IF sub = <<>> THEN TRUE
    ELSE IF seq = <<>> THEN FALSE
    ELSE IF Head(sub) = Head(seq) THEN InOrderOf(Tail(sub), Tail(seq))
    ELSE InOrderOf(sub, Tail(seq))

\* C16: of a certificate with a subject common name, no alternate name has
\* that name as its text, and the alternate names are those of the
\* extension that are left, in the order of the extension.
C16_AlternateWithoutSubject ==
    Returned("subject_alternate") /\ call.subject_name.some =>
        LET cn == call.subject_name.text
            names == [j \in 1..Len(call.general_names) |->
                          ToAlternate(call.general_names[j])]
            left == {j \in 1..Len(names) :
                         names[j].some /\ names[j].text # cn}
        IN  /\ \A j \in 1..Len(ret.val) : ret.val[j].text # cn
            /\ InOrderOf(ret.val, names)
            /\ Len(ret.val) = Cardinality(left)

\* The second of two names was the subject name, as an address, and the
\* first one is left.
C16_Witness ==
    /\ Returned("subject_alternate")
    /\ call.subject_name = SomeName("10.0.0.1")
    /\ Len(call.general_names) = 2
    /\ call.general_names[2].kind = "IPAddress"
    /\ Len(call.general_names[2].octets) = 4
    /\ Len(ret.val) = 1
    /\ ret.val[1].text = "b.example"

----
\* Properties of stream over a log with a leaf that does not decode.

FailedToDecode(t) == t.pc = "failed" /\ t.err.type = "Log"

\* C13 as stated: once an entry of a get-entries response has failed to
\* decode, stream returns Err(StreamError::Log(..)), and the handler is
\* called neither for that entry nor for an entry of a higher index.
C13_DecodeFailureReturned ==
    /\ [][(pc # "done" /\ pc' = "done"
               /\ \E i \in Tasks : FailedToDecode(queue[i]))
              => result' = ResponseError("Log", 1)]_vars
    /\ [][\A j \in 1..Len(delivered') : delivered'[j] < malformed]_vars

\* C13 amended: a get-entries response with an entry that does not decode
\* fails its task with that LogError; when stream awaits that batch it
\* returns the error as it is, without a call of the handler; the handler
\* is never called for that entry or for an entry of a higher index, nor
\* after stream has returned the error.
C13_DecodeFailureFatal ==
    /\ [][\A i \in Tasks : \A k \in 1..MaxBatch :
              (/\ malformed >= RequestStart(queue[i])
               /\ malformed < RequestStart(queue[i]) + k
               /\ TaskResponse(i, 200, NoHeader, k))
              => /\ queue'[i].pc = "failed"
                 /\ queue'[i].err = ResponseError("Log", 1)]_vars
    /\ [][(pc = "await" /\ queue # <<>> /\ FailedToDecode(Head(queue)))
              => /\ delivered' = delivered
                 /\ pc' # pc =>
                        (pc' = "done" /\ result' = ResponseError("Log", 1))]_vars
    /\ [][\A j \in 1..Len(delivered') : delivered'[j] < malformed]_vars
    /\ [][result.type = "Log" => delivered' = delivered]_vars

\* stream has returned the LogError of the second batch after it delivered
\* the first, while the third batch was fetched.
C13_Witness ==
    /\ result = ResponseError("Log", 1)
    /\ pc = "done"
    /\ delivered # <<>>
    /\ \A j \in 1..Len(delivered) : delivered[j] < malformed
    /\ queue # <<>>

----
\* Properties of the decoded entry.

WholeLeaf(entryVariant) ==
    MerkleTreeLeaf(0, 0, SomeMillis, entryVariant, BodyOf(entryVariant))

\* C21: of a leaf whose extra_data holds n certificates, each with its
\* length before it, within the length of the chain, the chain decoded is
\* those n certificates in that order; so it is of an X.509 entry and of a
\* precertificate entry, where the certificate that comes first in
\* extra_data is passed over and is no part of the chain.
C21_ChainInWireOrder ==
    Returned("parse_log_entry") =>
        \A n \in 0..MaxChain :
            /\ (call.data = WholeLeaf(0)
                    /\ call.extra_data = ChainBytes(Certs(n)))
                   => ret.val.ok /\ ret.val.chain = Certs(n)
            /\ (call.data = WholeLeaf(1)
                    /\ call.extra_data = PrecertExtra(Der(1), Certs(n)))
                   => ret.val.ok /\ ret.val.chain = Certs(n)

\* A precertificate entry was decoded with its chain of MaxChain
\* certificates.
C21_Witness ==
    /\ Returned("parse_log_entry")
    /\ call.data = WholeLeaf(1)
    /\ call.extra_data = PrecertExtra(Der(1), Certs(MaxChain))
    /\ ret.val.ok
    /\ Len(ret.val.chain) = MaxChain
    /\ ret.val.chain[1] = Der(2)

\* bytes * m + carry, two bytes longer than bytes, for m of at most 2^16.
RECURSIVE Product(_, _, _)
Product(bytes, m, carry) ==
    IF bytes = <<>> THEN <<carry \div 256, carry % 256>>
    ELSE LET n == bytes[Len(bytes)] * m + carry
         IN  Product(SubSeq(bytes, 1, Len(bytes) - 1), m, n \div 256)
                 \o <<n % 256>>

\* Whether secs is floor(millis / 1000):
\* 1000 * secs <= millis < 1000 * secs + 1000.
FloorOfThousandth(secs, millis) ==
    /\ AtMost(Product(secs, 1000, 0), <<0, 0>> \o millis)
    /\ ~AtMost(Product(secs, 1000, 1000), <<0, 0>> \o millis)

\* C22: whatever the 64 bits of timestamp_ms in a leaf are, the timestamp
\* of the entry decoded from it is floor(timestamp_ms / 1000) seconds after
\* the epoch.
C22_TimestampSeconds ==
    (Returned("parse_log_entry") /\ ret.val.ok) =>
        FloorOfThousandth(ret.val.timestamp, ReadU64(call.data, 2))

----
\* Properties of stream when a fetch task ends with an error.

Failed(q) == {i \in 1..Len(q) : q[i].pc = "failed"}

\* The handler has been called for the entries from the start position up
\* to start s, and for no other.
InvokedBelow(s, calls) ==
    {calls[j] : j \in 1..Len(calls)} = position..(s - 1)

\* C23 as stated: when stream has returned Err, then for every task that has
\* ended with a terminal error, of start s, the handler has been called for
\* every entry of the batches below s and for no entry of batch s or of a
\* later batch.
C23_DeliveredBelowFailed ==
    [][(pc' = "done" /\ result'.kind = "Err") =>
           /\ \A i \in Failed(queue) : InvokedBelow(queue[i].start, delivered')
           /\ \A i \in Failed(queue') :
                  InvokedBelow(queue'[i].start, delivered')]_vars

\* C23 amended: when stream returns Err as the task of start s has ended
\* with a terminal error and no task of an earlier batch has, the handler
\* has been called for every entry of the batches below s and for no entry
\* of batch s, whatever the task had collected, or of a later batch,
\* whatever has become of the tasks of the later batches.
C23_DeliveredBelowFirstFailed ==
    [][(result.kind # "Err" /\ pc' = "done" /\ result'.kind = "Err") =>
           \A i \in Failed(queue) :
               (\A j \in Failed(queue) : i <= j)
                   => InvokedBelow(queue[i].start, delivered')]_vars

\* stream has returned the error of the second batch after the handler
\* was called for the two entries of the first, and the task of the third
\* batch has collected entries or has failed as well.
C23_Witness ==
    /\ pc = "done"
    /\ result.kind = "Err"
    /\ batch = 2
    /\ delivered = <<0, 1>>
    /\ queue # <<>>
    /\ queue[1].pc \in {"done", "failed"}

----
\* Properties of stream over a log that returns every entry a query names.

\* C24: however many entries a response to get-entries carries, more than
\* were asked for among them, the collection of a fetch task never holds
\* more than batch entries, and no log index is handed to the handler
\* twice.
C24_CollectionWithinBatch ==
    /\ pc # "start" => \A i \in Tasks : Len(queue[i].collection) <= batch
    /\ \A j \in 1..Len(delivered) : \A l \in 1..Len(delivered) :
           j # l => delivered[j] # delivered[l]

----
\* Properties of the tree size loop.

\* C25: as long as get-sth has not returned Data no fetch task has been
\* started, so no get-entries request has been issued, and the handler has
\* not been called; when get-sth ends in a terminal error stream returns
\* that error, and no task is started and the handler is not called ever
\* after.
C25_SizeBeforeTasks ==
    /\ [](size = None =>
              /\ started = 0
              /\ queue = <<>>
              /\ current = <<>>
              /\ delivered = <<>>)
    /\ [][(pc = "size" /\ result'.kind = "Err") =>
              /\ pc' = "done"
              /\ size' = None
              /\ \E code \in Codes :
                     /\ TerminalClass(code) # "none"
                     /\ result' = ResponseError(TerminalClass(code), code)]_vars
    /\ [][(pc = "done" /\ size = None) =>
              /\ pc' = "done"
              /\ size' = None
              /\ result' = result]_vars

\* stream has returned the terminal error of get-sth, which came after an
\* answer that was retried.
C25_Witness ==
    /\ pc = "done"
    /\ size = None
    /\ result.kind = "Err"
    /\ sizeLoop.last.kind # "none"
    /\ started = 0
    /\ delivered = <<>>

====
